---- MODULE Spec2Model ----
(***************************************************************************)
(* Model of the layout-reconstruction pipeline of pdf_to_markdown.py and   *)
(* of the page loop of process_pdf in ocr_app.py.                          *)
(*                                                                         *)
(* Representation.  A Python str is a sequence of one-character strings;   *)
(* the fixed pieces of markup that the code appends ("**", "\n", ...) are  *)
(* single elements of such a sequence.  Glyph sizes and positions are      *)
(* integers in tenths of a point (143 is 14.3pt).  A colour channel is an  *)
(* integer in halves (0, 1, 2 stand for 0.0, 0.5, 1.0), all of which are   *)
(* exact binary floats.  None and the empty string, both falsy, are <<>>.  *)
(***************************************************************************)
EXTENDS Integers, Sequences, FiniteSets, TLC

VARIABLES
    pdf,              \* pdf.pages: sequence of pages, each the page.chars list
    title_recognize,  \* argument
    color_recognize,  \* argument
    header_regex,     \* argument: sequence of pattern tokens, <<>> when absent
    footer_regex,     \* argument
    pc,               \* "loop", "raised" (re.error), "index_error", "done"
    page_i,           \* number of pages whose loop iteration was entered
    markdown_content, \* the output buffer (local of pdf_to_markdown)
    lines_grouped,    \* `lines` as it is at line 31, before filtering
    lines,            \* `lines` after the header/footer filter
    line_objects,     \* `line_objects` as it is at line 85, before merging
    styled_chars,     \* `styled_chars` of the line analysed last, <<>> before
    merged_lines,     \* `merged_lines` at the end of the iteration
    output_file,      \* what was written to output_path, <<"unwritten">> before
    ocr_pc,           \* process_pdf: "loop", "saved", "printed", "raised"
    ocr_results,      \* process_pdf: outcome of the OCR call per page so far
    images,           \* process_pdf: number of page images (len(images))
    full_text,        \* process_pdf: full_text
    saved_file        \* process_pdf: content of final_output_path

pdfVars == <<pdf, title_recognize, color_recognize, header_regex, footer_regex,
             pc, page_i, markdown_content, lines_grouped, lines, line_objects,
             styled_chars, merged_lines, output_file>>
ocrVars == <<ocr_pc, images, ocr_results, full_text, saved_file>>
vars == <<pdfVars, ocrVars>>

----------------------------------------------------------------------------
(* Bounds of the checked input families.                                   *)
MaxPages == 2
MaxLines == 3
MaxGlyphs == 3
MaxImages == 4

----------------------------------------------------------------------------
(* Generic helpers.                                                        *)

Abs(x) == IF x < 0 THEN -x ELSE x

RECURSIVE Flatten(_)
Flatten(ss) == IF ss = <<>> THEN <<>> ELSE Head(ss) \o Flatten(Tail(ss))

Range(s) == {s[k] : k \in DOMAIN s}

\* str.lower() on the letters that occur in the modelled font names
LowerChar(c) ==
    CASE c = "A" -> "a" [] c = "B" -> "b" [] c = "I" -> "i"
      [] c = "O" -> "o" [] c = "D" -> "d" [] c = "L" -> "l"
      [] OTHER -> c

Lower(s) == [k \in DOMAIN s |-> LowerChar(s[k])]

\* Python's `sub in s` on strings
Contains(sub, s) ==
    \E k \in 0..(Len(s) - Len(sub)) :
        \A j \in 1..Len(sub) : s[k + j] = sub[j]

\* round() on a float given in tenths: to nearest, ties to the even integer
RoundHalfEven(size10) ==
    LET q == size10 \div 10
        r == size10 % 10
    IN  IF r < 5 THEN q
        ELSE IF r > 5 THEN q + 1
        ELSE IF q % 2 = 0 THEN q ELSE q + 1

----------------------------------------------------------------------------
(* Lines 17-31: sort by (top, x0), then cluster into lines.                *)

KeyLE(a, b) == a.top < b.top \/ (a.top = b.top /\ a.x0 <= b.x0)

\* insert c behind every element whose key is <= its own (sorted() is stable)
RECURSIVE InsertSorted(_, _)
InsertSorted(c, s) ==
    IF s = <<>> THEN <<c>>
    ELSE IF KeyLE(Head(s), c) THEN <<Head(s)>> \o InsertSorted(c, Tail(s))
    ELSE <<c>> \o s

RECURSIVE SortedChars(_)
SortedChars(chars) ==
    IF chars = <<>> THEN <<>>
    ELSE InsertSorted(chars[Len(chars)], SortedChars(SubSeq(chars, 1, Len(chars) - 1)))

\* mutant: <= in place of < at line 26
SameLineInclusive(last, char) == 5 * Abs(char.top - last.top) <= last.size

\* abs(char["top"] - current_line[-1]["top"]) < current_line[-1]["size"] * 0.2,
\* in exact arithmetic on tenths of a point
SameLine(last, char) == 5 * Abs(char.top - last.top) < last.size

RECURSIVE GroupFrom(_, _, _)
GroupFrom(rest, done, current_line) ==
    IF rest = <<>> THEN Append(done, current_line)
    ELSE IF SameLine(current_line[Len(current_line)], Head(rest))
         THEN GroupFrom(Tail(rest), done, Append(current_line, Head(rest)))
         ELSE GroupFrom(Tail(rest), Append(done, current_line), <<Head(rest)>>)

GroupLines(sorted_chars) ==
    IF sorted_chars = <<>> THEN <<>>
    ELSE GroupFrom(Tail(sorted_chars), <<>>, <<Head(sorted_chars)>>)

----------------------------------------------------------------------------
(* Lines 33-37: the header/footer filter.  A pattern is a sequence of      *)
(* tokens: a literal character, "\\d", a postfix "+", a leading "^", "(".  *)

LineText(line) == [k \in DOMAIN line |-> line[k].text]

IsSpace(c) == c = " "

RECURSIVE LStrip(_)
LStrip(s) == IF s # <<>> /\ IsSpace(Head(s)) THEN LStrip(Tail(s)) ELSE s

RECURSIVE RStrip(_)
RStrip(s) ==
    IF s # <<>> /\ IsSpace(s[Len(s)]) THEN RStrip(SubSeq(s, 1, Len(s) - 1)) ELSE s

Strip(s) == RStrip(LStrip(s))

IsDigit(c) == c \in {"0", "1", "2", "3", "4", "5", "6", "7", "8", "9"}

\* re.compile raises re.error: an unterminated group, or nothing to repeat
ReError(regex) ==
    \/ \E k \in DOMAIN regex : regex[k] = "("
    \/ regex # <<>> /\ regex[1] = "+"
    \/ Len(regex) >= 2 /\ regex[1] = "^" /\ regex[2] = "+"

AtomMatches(atom, c) == IF atom = "\\d" THEN IsDigit(c) ELSE atom = c

RECURSIVE MatchHere(_, _, _)
RECURSIVE MatchPlus(_, _, _)
MatchHere(regex, text, atStart) ==
    IF regex = <<>> THEN TRUE
    ELSE IF regex[1] = "^" THEN atStart /\ MatchHere(Tail(regex), text, atStart)
    ELSE IF Len(regex) >= 2 /\ regex[2] = "+"
         THEN MatchPlus(regex[1], Tail(Tail(regex)), text)
    ELSE /\ text # <<>>
         /\ AtomMatches(regex[1], Head(text))
         /\ MatchHere(Tail(regex), Tail(text), FALSE)

MatchPlus(atom, rest, text) ==
    /\ text # <<>>
    /\ AtomMatches(atom, Head(text))
    /\ (MatchPlus(atom, rest, Tail(text)) \/ MatchHere(rest, Tail(text), FALSE))

\* re.match(regex, text) is not None, for a pattern that compiles
ReMatch(regex, text) == MatchHere(regex, text, TRUE)

\* mutant: the .strip() of lines 35 and 37 left out
FilterLinesUnstripped(regex, ls) ==
    SelectSeq(ls, LAMBDA line : ~ReMatch(regex, LineText(line)))

\* [line for line in lines if not re.match(regex, "".join(...).strip())]
FilterLines(regex, ls) ==
    SelectSeq(ls, LAMBDA line : ~ReMatch(regex, Strip(LineText(line))))

\* the comprehension calls re.match, and so raises, only if there is a line
FilterRaises(regex, ls) == regex # <<>> /\ ls # <<>> /\ ReError(regex)

ApplyFilter(regex, ls) == IF regex # <<>> THEN FilterLines(regex, ls) ELSE ls

----------------------------------------------------------------------------
(* Lines 47-55: styled_chars, an insertion-ordered dict style -> texts,    *)
(* as a sequence of [style, texts] entries in insertion order.             *)

StyleOf(char) == <<Lower(char.fontname), RoundHalfEven(char.size), char.color>>

\* mutant: a new run whenever the signature differs from the previous glyph's
AddCharPositional(styled, char) ==
    LET style == StyleOf(char) IN
    IF styled # <<>> /\ styled[Len(styled)].style = style
    THEN [styled EXCEPT ![Len(styled)].texts = Append(@, char.text)]
    ELSE Append(styled, [style |-> style, texts |-> <<char.text>>])

\* mutant: a new signature put in front of the runs seen so far
AddCharNewestFirst(styled, char) ==
    LET style == StyleOf(char) IN
    IF \E k \in DOMAIN styled : styled[k].style = style
    THEN [k \in DOMAIN styled |->
            IF styled[k].style = style
            THEN [styled[k] EXCEPT !.texts = Append(@, char.text)]
            ELSE styled[k]]
    ELSE <<[style |-> style, texts |-> <<char.text>>]>> \o styled

AddChar(styled, char) ==
    LET style == StyleOf(char) IN
    IF \E k \in DOMAIN styled : styled[k].style = style
    THEN [k \in DOMAIN styled |->
            IF styled[k].style = style
            THEN [styled[k] EXCEPT !.texts = Append(@, char.text)]
            ELSE styled[k]]
    ELSE Append(styled, [style |-> style, texts |-> <<char.text>>])

RECURSIVE StyledChars(_)
StyledChars(line) ==
    IF line = <<>> THEN <<>>
    ELSE AddChar(StyledChars(SubSeq(line, 1, Len(line) - 1)), line[Len(line)])

----------------------------------------------------------------------------
(* Lines 57-62: heading classification.                                    *)

BoldMarker == <<"b", "o", "l", "d">>
ItalicMarker == <<"i", "t", "a", "l", "i", "c">>
ObliqueMarker == <<"o", "b", "l", "i", "q", "u", "e">>

NoColor == <<>>
Black == <<0, 0, 0>>

IsHeadingStyle(style) == Contains(BoldMarker, style[1]) /\ style[2] > 14

HeadingLevelOf(style) == IF style[2] > 18 THEN 1 ELSE 2

\* mutant: the test len(styled_chars) == 1 of line 57 left out
ClassifyFirstRun(styled, tr) ==
    IF tr /\ Len(styled) >= 1 /\ IsHeadingStyle(styled[1].style)
    THEN [is_heading |-> TRUE,
          heading_level |-> HeadingLevelOf(styled[1].style),
          color |-> styled[1].style[3]]
    ELSE [is_heading |-> FALSE, heading_level |-> 0, color |-> NoColor]

Classify(styled, tr) ==
    IF tr /\ Len(styled) = 1 /\ IsHeadingStyle(styled[1].style)
    THEN [is_heading |-> TRUE,
          heading_level |-> HeadingLevelOf(styled[1].style),
          color |-> styled[1].style[3]]
    ELSE [is_heading |-> FALSE, heading_level |-> 0, color |-> NoColor]

----------------------------------------------------------------------------
(* Lines 64-77: the text of a line, run by run.                            *)

HexDigit(n) ==
    <<"0", "1", "2", "3", "4", "5", "6", "7",
      "8", "9", "a", "b", "c", "d", "e", "f">>[n + 1]

\* f"{int(c*255):02x}" for a channel c given in halves
Hex2(half) ==
    LET v == (half * 255) \div 2 IN <<HexDigit(v \div 16), HexDigit(v % 16)>>

FontOpen(color) ==
    <<"<font color=\"#">> \o Hex2(color[1]) \o Hex2(color[2]) \o Hex2(color[3])
        \o <<"\">">>

RunText(entry, cr) ==
    LET text0 == entry.texts
        fontname == entry.style[1]
        color == entry.style[3]
        text1 == IF Contains(BoldMarker, fontname)
                 THEN <<"**">> \o text0 \o <<"**">> ELSE text0
        text2 == IF Contains(ItalicMarker, fontname) \/ Contains(ObliqueMarker, fontname)
                 THEN <<"*">> \o text1 \o <<"*">> ELSE text1
        text3 == IF color # Black
                 THEN FontOpen(color) \o text2 \o <<"</font>">> ELSE text2
    IN  IF cr THEN text3 ELSE text0

\* line 75 indexes color[0..2] of a colour that is not (0, 0, 0): a tuple of
\* fewer than three components raises IndexError
ColorRaises(color) == color # Black /\ Len(color) < 3

LineRaises(line, cr) ==
    cr /\ \E k \in DOMAIN line : ColorRaises(line[k].color)

\* index of the first line whose text cannot be built, 0 if there is none
FirstRaising(ls, cr) ==
    IF \E k \in DOMAIN ls : LineRaises(ls[k], cr)
    THEN CHOOSE k \in DOMAIN ls :
            LineRaises(ls[k], cr) /\ \A j \in 1..(k - 1) : ~LineRaises(ls[j], cr)
    ELSE 0

BuildLineText(styled, cr) ==
    Flatten([k \in DOMAIN styled |-> RunText(styled[k], cr)])

\* lines 41-84 for the line at index k; src records which lines went into
\* `text` (history only: the code keeps no such field)
LineObject(line, k, tr, cr) ==
    LET styled == StyledChars(line)
        cls == Classify(styled, tr)
    IN  [text |-> BuildLineText(styled, cr),
         is_heading |-> cls.is_heading,
         heading_level |-> cls.heading_level,
         color |-> cls.color,
         src |-> <<k>>]

LineObjects(ls, tr, cr) == [k \in DOMAIN ls |-> LineObject(ls[k], k, tr, cr)]

----------------------------------------------------------------------------
(* Lines 86-101: merge consecutive titles.                                 *)

\* mutant: the colour comparison of line 96 left out
CanMergeAnyColor(current_line, next_line) ==
    /\ next_line.is_heading
    /\ current_line.heading_level = next_line.heading_level

CanMerge(current_line, next_line) ==
    /\ next_line.is_heading
    /\ current_line.heading_level = next_line.heading_level
    /\ current_line.color = next_line.color

MergeInto(current_line, next_line) ==
    [current_line EXCEPT !.text = @ \o <<" ">> \o next_line.text,
                         !.src = @ \o next_line.src]

RECURSIVE MergeFrom(_, _, _, _)
MergeFrom(objs, k, merged, tr) ==
    IF k > Len(objs) THEN merged
    ELSE IF tr /\ objs[k].is_heading /\ k + 1 <= Len(objs)
            /\ CanMerge(objs[k], objs[k + 1])
         THEN MergeFrom(objs, k + 2, Append(merged, MergeInto(objs[k], objs[k + 1])), tr)
         ELSE MergeFrom(objs, k + 1, Append(merged, objs[k]), tr)

MergeTitles(objs, tr) == MergeFrom(objs, 1, <<>>, tr)

----------------------------------------------------------------------------
(* Lines 15 and 103-108: rendering.                                        *)

\* mutant: the page numbered by its 0-based index
PageDelimiterZeroBased(n) ==
    <<"\n", "\n", "<!-- Page ", ToString(n - 1), " -->", "\n", "\n">>

PageDelimiter(n) ==
    <<"\n", "\n", "<!-- Page ", ToString(n), " -->", "\n", "\n">>

Hashes(level) == [k \in 1..level |-> "#"]

RenderLine(line, tr) ==
    IF tr /\ line.is_heading
    THEN Hashes(line.heading_level) \o <<" ">> \o line.text \o <<"\n">>
    ELSE line.text \o <<"\n">>

RenderLines(merged, tr) == Flatten([k \in DOMAIN merged |-> RenderLine(merged[k], tr)])

----------------------------------------------------------------------------
(* pdf_to_markdown: one iteration of `for page in pdf.pages` (lines 14-108)*)
(* and the write after the loop (lines 110-112).  page.page_number is the  *)
(* 1-based position of the page.  An exception of re.match, or of the      *)
(* colour formatting of line 75, leaves the function with the locals as    *)
(* they are at the raise.                                                  *)

ProcessPage ==
    /\ pc = "loop"
    /\ page_i < Len(pdf)
    /\ LET n == page_i + 1
           content == markdown_content \o PageDelimiter(n)
           grouped == GroupLines(SortedChars(pdf[n]))
           afterHeader == ApplyFilter(header_regex, grouped)
           kept == ApplyFilter(footer_regex, afterHeader)
           objs == LineObjects(kept, title_recognize, color_recognize)
           merged == MergeTitles(objs, title_recognize)
       IN  /\ page_i' = n
           /\ lines_grouped' = grouped
           /\ IF FilterRaises(header_regex, grouped)
              THEN /\ pc' = "raised"
                   /\ markdown_content' = content
                   /\ lines' = grouped
                   /\ UNCHANGED <<line_objects, styled_chars, merged_lines>>
              ELSE IF FilterRaises(footer_regex, afterHeader)
              THEN /\ pc' = "raised"
                   /\ markdown_content' = content
                   /\ lines' = afterHeader
                   /\ UNCHANGED <<line_objects, styled_chars, merged_lines>>
              ELSE IF FirstRaising(kept, color_recognize) # 0
              THEN /\ pc' = "index_error"
                   /\ markdown_content' = content
                   /\ lines' = kept
                   /\ line_objects' =
                        LineObjects(SubSeq(kept, 1, FirstRaising(kept, color_recognize) - 1),
                                    title_recognize, color_recognize)
                   /\ styled_chars' = StyledChars(kept[FirstRaising(kept, color_recognize)])
                   /\ UNCHANGED merged_lines
              ELSE /\ pc' = "loop"
                   /\ lines' = kept
                   /\ line_objects' = objs
                   /\ styled_chars' = IF kept = <<>> THEN styled_chars
                                      ELSE StyledChars(kept[Len(kept)])
                   /\ merged_lines' = merged
                   /\ markdown_content' = content \o RenderLines(merged, title_recognize)
    /\ UNCHANGED <<pdf, title_recognize, color_recognize, header_regex,
                   footer_regex, output_file, ocrVars>>

WriteOutput ==
    /\ pc = "loop"
    /\ page_i = Len(pdf)
    /\ pc' = "done"
    /\ output_file' = markdown_content
    /\ UNCHANGED <<pdf, title_recognize, color_recognize, header_regex,
                   footer_regex, page_i, markdown_content, lines_grouped, lines,
                   line_objects, styled_chars, merged_lines, ocrVars>>

----------------------------------------------------------------------------
(* Input families.  A cell is a glyph without its position; a line         *)
(* template is a sequence of cells; line k of a page is placed at          *)
(* top = 30pt * k, its j-th glyph at x0 = 10pt * j.                        *)

ArialBold == <<"A", "r", "i", "a", "l", "-", "B", "o", "l", "d">>
Arial == <<"A", "r", "i", "a", "l">>
ArialBoldOblique ==
    <<"A", "r", "i", "a", "l", "-", "B", "o", "l", "d", "O", "b", "l", "i", "q", "u", "e">>
ArialItalic == <<"A", "r", "i", "a", "l", "-", "I", "t", "a", "l", "i", "c">>
Red == <<2, 0, 0>>
Grey == <<1, 1, 1>>

Cell(text, size, fontname, color) ==
    [text |-> text, size |-> size, fontname |-> fontname, color |-> color]

Place(cell, k, j) ==
    [text |-> cell.text, top |-> 300 * k, x0 |-> 100 * j, size |-> cell.size,
     fontname |-> cell.fontname, color |-> cell.color]

PlaceLine(cells, k) == [j \in DOMAIN cells |-> Place(cells[j], k, j)]

PlacePage(templates) ==
    Flatten([k \in DOMAIN templates |-> PlaceLine(templates[k], k)])

SeqsUpTo(S, n) == UNION {[1..m -> S] : m \in 0..n}

Styled(text, size, fontname, color) ==
    [j \in DOMAIN text |-> Cell(text[j], size, fontname, color)]

NoPattern == <<>>
PagePattern == <<"^", "P", "\\d", "+">>
LetterPattern == <<"x">>
UnclosedPattern == <<"(">>
NothingToRepeat == <<"+", "x">>

\* several pages, each of up to two lines
PagedTemplates ==
    {Styled(<<"P", "1">>, 200, ArialBold, Black), Styled(<<"x">>, 120, Arial, Black)}
DocsPaged ==
    {[p \in DOMAIN d |-> PlacePage(d[p])] :
        d \in SeqsUpTo(SeqsUpTo(PagedTemplates, 2), MaxPages)}

\* one page of heading and body lines
HeadingTemplates ==
    {Styled(t, st[1], st[2], st[3]) :
        t \in {<<"P", "1">>, <<"x">>},
        st \in {<<200, ArialBold, Black>>, <<200, ArialBold, Red>>,
                <<160, ArialBold, Black>>, <<120, Arial, Black>>}}
DocsHeadings == {<<PlacePage(ts)>> : ts \in SeqsUpTo(HeadingTemplates, MaxLines)}

\* one line of one glyph, sizes around the two thresholds
Sizes == {120, 140, 143, 145, 146, 150, 155, 180, 184, 185, 186, 190, 200}
DocsSizes ==
    {<<PlacePage(<<Styled(<<"x">>, sz, f, c)>>)>> :
        sz \in Sizes, f \in {Arial, ArialBold, ArialBoldOblique}, c \in {Black, Red}}

\* one line of glyphs in mixed styles
MixedCells ==
    {Cell(t, 200, st[1], st[2]) :
        t \in {"P", "1"},
        st \in {<<ArialBold, Black>>, <<ArialItalic, Black>>, <<ArialBold, Grey>>}}
DocsMixed ==
    {<<PlacePage(<<cs>>)>> : cs \in SeqsUpTo(MixedCells, MaxGlyphs) \ {<<>>}}

\* one line of plain text with blanks
DocsText ==
    {<<PlacePage(<<Styled(t, 120, Arial, Black)>>)>> :
        t \in SeqsUpTo({" ", "P", "1"}, MaxGlyphs) \ {<<>>}}

\* one page of up to two one-glyph lines, colours of arity 1, 3 and 4
\* ((0,) grey-scale, (0, 0, 0, 1) CMYK)
GreyScale == <<0>>
Cmyk == <<0, 0, 0, 2>>
ColorTemplates ==
    {Styled(<<"x">>, 200, f, c) :
        f \in {Arial, ArialBold}, c \in {Black, Red, GreyScale, Cmyk}}
DocsColors == {<<PlacePage(ts)>> : ts \in SeqsUpTo(ColorTemplates, 2) \ {<<>>}}

\* one page of glyphs in any order, tops 0pt, 2pt and 4pt apart, sizes 10pt
\* and 20pt (tolerances 2pt and 4pt)
SegmentGlyphs ==
    {[text |-> "x", top |-> t, x0 |-> x, size |-> sz, fontname |-> Arial,
      color |-> Black] :
        t \in {1000, 1020, 1040}, x \in {10, 20}, sz \in {100, 200}}
DocsSegments == {<<cs>> : cs \in SeqsUpTo(SegmentGlyphs, MaxGlyphs)}

InitLocals ==
    /\ pc = "loop"
    /\ page_i = 0
    /\ markdown_content = <<>>
    /\ lines_grouped = <<>>
    /\ lines = <<>>
    /\ line_objects = <<>>
    /\ styled_chars = <<>>
    /\ merged_lines = <<>>
    /\ output_file = <<"unwritten">>

InitOcrIdle ==
    /\ ocr_pc = "idle"
    /\ images = 0
    /\ ocr_results = <<>>
    /\ full_text = <<>>
    /\ saved_file = <<"unwritten">>

InitInputs ==
    \/ /\ pdf \in DocsPaged
       /\ header_regex \in {NoPattern, PagePattern, UnclosedPattern}
       /\ footer_regex \in {NoPattern, LetterPattern, NothingToRepeat}
    \/ /\ pdf \in DocsHeadings
       /\ header_regex \in {NoPattern, PagePattern}
       /\ footer_regex \in {NoPattern, LetterPattern}
    \/ /\ pdf \in DocsSizes \cup DocsMixed \cup DocsColors
       /\ header_regex = NoPattern
       /\ footer_regex = NoPattern
    \/ /\ pdf \in DocsSegments
       /\ header_regex = NoPattern
       /\ footer_regex = NoPattern
       /\ title_recognize = FALSE
       /\ color_recognize = FALSE
    \/ /\ pdf \in DocsText
       /\ header_regex \in {NoPattern, PagePattern, <<"P">>}
       /\ footer_regex \in {NoPattern, <<"\\d">>}

Init ==
    /\ InitInputs
    /\ title_recognize \in BOOLEAN
    /\ color_recognize \in BOOLEAN
    /\ InitLocals
    /\ InitOcrIdle

Next == ProcessPage \/ WriteOutput

Spec == Init /\ [][Next]_vars

----------------------------------------------------------------------------
(* Vocabulary of the properties.                                           *)

\* the iteration of the page entered last ran to its end
PageDone == page_i >= 1 /\ pc \in {"loop", "done"}

RECURSIVE JoinWithSpaces(_)
JoinWithSpaces(texts) ==
    IF texts = <<>> THEN <<>>
    ELSE IF Len(texts) = 1 THEN texts[1]
    ELSE texts[1] \o <<" ">> \o JoinWithSpaces(Tail(texts))

\* the distinct style signatures of a line of glyphs
Signatures(line) == {StyleOf(line[k]) : k \in DOMAIN line}

\* positions of the page delimiters in the buffer, and the text behind the last
DelimiterAt == {p \in DOMAIN markdown_content : markdown_content[p] = "<!-- Page "}
LastDelimiter == CHOOSE p \in DelimiterAt : \A q \in DelimiterAt : q <= p
LastPageOutput == SubSeq(markdown_content, LastDelimiter + 5, Len(markdown_content))

\* lines a..b of the page are headings of one level and one colour
HeadingRun(a, b) ==
    \A k \in a..b :
        /\ line_objects[k].is_heading
        /\ line_objects[k].heading_level = line_objects[a].heading_level
        /\ line_objects[k].color = line_objects[a].color

MaximalHeadingRun(a, b) ==
    /\ HeadingRun(a, b)
    /\ a > 1 => ~HeadingRun(a - 1, b)
    /\ b < Len(line_objects) => ~HeadingRun(a, b + 1)

----------------------------------------------------------------------------
(* C1.  With title recognition enabled, every maximal run of k >= 2        *)
(* consecutive heading lines of equal level and colour becomes a single    *)
(* heading whose text is the k line texts joined by single spaces, in      *)
(* order.  The code merges at most two lines into one heading, so a run of *)
(* three leaves the third as a heading of its own.                         *)
C1_RunMergedWhole ==
    (PageDone /\ title_recognize) =>
        \A a, b \in DOMAIN line_objects :
            (a < b /\ MaximalHeadingRun(a, b)) =>
                \E m \in DOMAIN merged_lines :
                    /\ merged_lines[m].src = [k \in 1..(b - a + 1) |-> a + k - 1]
                    /\ merged_lines[m].text =
                         JoinWithSpaces([k \in 1..(b - a + 1) |-> line_objects[a + k - 1].text])

----------------------------------------------------------------------------
(* C2.  Two lines end up in the same output heading only if they are       *)
(* adjacent lines of the same page, both headings, of strictly equal level *)
(* and colour; the merged text joins the line texts with single spaces;    *)
(* every line of the page occurs in exactly one output line and the order  *)
(* of the lines is unchanged.                                              *)
C2_MergeOnlyAdjacentEqual ==
    PageDone =>
        /\ Flatten([m \in DOMAIN merged_lines |-> merged_lines[m].src])
             = [k \in 1..Len(line_objects) |-> k]
        /\ \A m \in DOMAIN merged_lines :
             LET src == merged_lines[m].src IN
             /\ src # <<>>
             /\ merged_lines[m].text =
                  JoinWithSpaces([k \in DOMAIN src |-> line_objects[src[k]].text])
             /\ Len(src) >= 2 =>
                  /\ title_recognize
                  /\ \A k \in DOMAIN src :
                       /\ line_objects[src[k]].is_heading
                       /\ line_objects[src[k]].heading_level = merged_lines[m].heading_level
                       /\ line_objects[src[k]].color = merged_lines[m].color

\* headings L1, L2 of colour A and L3 of colour B were merged as {L1,L2}, {L3}
C2_Witness ==
    /\ PageDone
    /\ Len(line_objects) = 3
    /\ \A k \in 1..3 : line_objects[k].is_heading /\ line_objects[k].heading_level = 1
    /\ line_objects[1].color = line_objects[2].color
    /\ line_objects[3].color # line_objects[2].color
    /\ Len(merged_lines) = 2
    /\ merged_lines[1].src = <<1, 2>>
    /\ merged_lines[2].src = <<3>>

----------------------------------------------------------------------------
(* C3.  With title recognition enabled, a line with exactly one style      *)
(* signature is a heading exactly when its font name contains the bold     *)
(* marker and its glyph size is above 14pt, of level 1 above 18pt and of   *)
(* level 2 otherwise; every other line, and every line without title       *)
(* recognition, has level 0.  The code compares the rounded size, so a     *)
(* bold line of 14.3pt is body text and one of 18.4pt is of level 2.       *)
C3_ExpectedLevel(line) ==
    IF /\ title_recognize
       /\ Cardinality(Signatures(line)) = 1
       /\ Contains(BoldMarker, Lower(line[1].fontname))
       /\ line[1].size > 140
    THEN (IF line[1].size > 180 THEN 1 ELSE 2)
    ELSE 0

\* C3: every line object has the level the glyph size and weight call for
C3_HeadingBySize ==
    PageDone =>
        \A k \in DOMAIN line_objects :
            /\ line_objects[k].heading_level = C3_ExpectedLevel(lines[k])
            /\ line_objects[k].is_heading <=> C3_ExpectedLevel(lines[k]) > 0

----------------------------------------------------------------------------
(* C4.  A line with more than one distinct style signature is never a      *)
(* heading and has level 0, whatever its runs and whatever the flags.      *)
C4_MixedNeverHeading ==
    PageDone =>
        \A k \in DOMAIN line_objects :
            Cardinality(Signatures(lines[k])) > 1 =>
                /\ ~line_objects[k].is_heading
                /\ line_objects[k].heading_level = 0
                /\ line_objects[k].color = NoColor

\* a line of two signatures, each of which alone would make a level-1 heading
C4_Witness ==
    /\ PageDone
    /\ title_recognize
    /\ \E k \in DOMAIN line_objects :
         /\ Cardinality(Signatures(lines[k])) > 1
         /\ \A g \in DOMAIN lines[k] :
              IsHeadingStyle(StyleOf(lines[k][g]))
         /\ ~line_objects[k].is_heading

----------------------------------------------------------------------------
(* C5.  Filtering precedes classification and merging.  A line whose       *)
(* trimmed text matches the header pattern, or the footer pattern, from    *)
(* the start is dropped before line objects are built, so that it is       *)
(* neither rendered nor merged into a heading; all other lines are kept,   *)
(* in order; without a pattern nothing is dropped.                         *)
C5_Matches(regex, line) == regex # <<>> /\ ReMatch(regex, Strip(LineText(line)))

C5_Kept(line) == ~C5_Matches(header_regex, line) /\ ~C5_Matches(footer_regex, line)

\* the newline-terminated pieces of the text behind the last delimiter
NewlinesIn(text) == {p \in DOMAIN text : text[p] = "\n"}

\* C5: only the lines matching neither pattern reach classification and output
C5_FilterFirst ==
    PageDone =>
        /\ lines = SelectSeq(lines_grouped, C5_Kept)
        /\ (header_regex = <<>> /\ footer_regex = <<>>) => lines = lines_grouped
        /\ Len(line_objects) = Len(lines)
        /\ \A k \in DOMAIN line_objects :
             /\ Range(LineText(lines[k])) \subseteq Range(line_objects[k].text)
             /\ ~color_recognize => Len(line_objects[k].text) = Len(lines[k])
        /\ Flatten([m \in DOMAIN merged_lines |-> merged_lines[m].src])
             = [k \in 1..Len(lines) |-> k]
        /\ Cardinality(NewlinesIn(LastPageOutput)) = Len(merged_lines)

\* a line that would be a heading matched the header pattern and was dropped,
\* and the heading behind it stands alone in the output
C5_Witness ==
    /\ PageDone
    /\ title_recognize
    /\ header_regex # <<>>
    /\ Len(lines_grouped) = 2
    /\ C5_Matches(header_regex, lines_grouped[1])
    /\ \A k \in 1..2 : Signatures(lines_grouped[k]) = {<<Lower(ArialBold), 20, Black>>}
    /\ lines = <<lines_grouped[2]>>
    /\ Len(merged_lines) = 1
    /\ merged_lines[1].is_heading

----------------------------------------------------------------------------
(* C6.  The buffer holds one delimiter per page entered, numbered 1, 2,    *)
(* ... in page order, also for a page without glyphs, whose delimiter is   *)
(* followed by no line; the lines of the page processed last stand behind  *)
(* the last delimiter; the buffer only ever grows at its end, a page       *)
(* adding its delimiter and then its lines; the file written is the        *)
(* buffer.                                                                 *)
Ordinal(p) == Cardinality({q \in DelimiterAt : q <= p})
DelimiterOf(i) == CHOOSE p \in DelimiterAt : Ordinal(p) = i
PageSegment(i) ==
    SubSeq(markdown_content, DelimiterOf(i) + 5,
           IF i < page_i THEN DelimiterOf(i + 1) - 3 ELSE Len(markdown_content))

IsPrefix(s, t) == Len(s) <= Len(t) /\ SubSeq(t, 1, Len(s)) = s
IsSuffix(s, t) == Len(s) <= Len(t) /\ SubSeq(t, Len(t) - Len(s) + 1, Len(t)) = s

\* the m-th newline-terminated piece of text, without its newline
Piece(text, m) ==
    LET ends == NewlinesIn(text)
        e == CHOOSE p \in ends : Cardinality({q \in ends : q <= p}) = m
        b == IF m = 1 THEN 0
             ELSE CHOOSE p \in ends : Cardinality({q \in ends : q <= p}) = m - 1
    IN  SubSeq(text, b + 1, e - 1)

C6_Buffer ==
    /\ Cardinality(DelimiterAt) = page_i
    /\ \A p \in DelimiterAt :
         /\ p >= 3
         /\ SubSeq(markdown_content, p - 2, p + 4)
              = <<"\n", "\n", "<!-- Page ", ToString(Ordinal(p)), " -->", "\n", "\n">>
    /\ \A i \in 1..page_i : pdf[i] = <<>> => PageSegment(i) = <<>>
    /\ PageDone =>
         /\ Cardinality(NewlinesIn(LastPageOutput)) = Len(merged_lines)
         /\ \A m \in DOMAIN merged_lines :
              IsSuffix(merged_lines[m].text, Piece(LastPageOutput, m))
    /\ pc = "done" => page_i = Len(pdf) /\ output_file = markdown_content

C6_Step ==
    /\ IsPrefix(markdown_content, markdown_content')
    /\ page_i' \in {page_i, page_i + 1}
    /\ page_i' = page_i + 1 =>
         IsPrefix(markdown_content \o <<"\n", "\n", "<!-- Page ">>, markdown_content')

\* C6: one delimiter per page in page order, and an append-only buffer
C6_PageOrder == [](C6_Buffer) /\ [][C6_Step]_vars

\* a page without glyphs, then a page with a line, both delimited, written out
C6_Witness ==
    /\ pc = "done"
    /\ Len(pdf) = 2
    /\ pdf[1] = <<>>
    /\ pdf[2] # <<>>
    /\ Cardinality(DelimiterAt) = 2
    /\ PageSegment(1) = <<>>
    /\ PageSegment(2) # <<>>

----------------------------------------------------------------------------
(* C7.  With title recognition enabled a heading of level L is emitted as  *)
(* L '#' characters, one space, the heading's plain glyph text without     *)
(* emphasis or colour markup, and a newline, whatever color_recognize is.  *)
(* The code takes the heading text from the marked-up line text, so with   *)
(* color_recognize a bold heading is emitted as '# **Hello**'.             *)
C7_PlainHeading ==
    (PageDone /\ title_recognize) =>
        \A m \in DOMAIN merged_lines :
            merged_lines[m].is_heading =>
                LET src == merged_lines[m].src
                    plain == JoinWithSpaces([k \in DOMAIN src |-> LineText(lines[src[k]])])
                IN  Piece(LastPageOutput, m)
                      = Hashes(merged_lines[m].heading_level) \o <<" ">> \o plain

----------------------------------------------------------------------------
(* C8.  With neither flag enabled every output line is the raw             *)
(* concatenation of the line's glyph texts in glyph order, also when style *)
(* signatures interleave.  The code groups the texts by signature, so a    *)
(* line in styles A, B, A comes out as the two A texts and then the B      *)
(* text.                                                                   *)
C8_RawOrder ==
    (PageDone /\ ~title_recognize /\ ~color_recognize) =>
        /\ Cardinality(NewlinesIn(LastPageOutput)) = Len(lines)
        /\ \A k \in DOMAIN lines : Piece(LastPageOutput, k) = LineText(lines[k])

(* C8 as amended.  With neither flag enabled every output line consists of *)
(* the line's glyph texts and nothing else, grouped by style signature in  *)
(* the order in which the signatures first occur and in glyph order within *)
(* a signature; this is the raw glyph order for every line in which the    *)
(* glyphs of each signature are contiguous.                                *)
FirstWith(line, k) ==
    CHOOSE j \in DOMAIN line :
        /\ StyleOf(line[j]) = StyleOf(line[k])
        /\ \A h \in 1..(j - 1) : StyleOf(line[h]) # StyleOf(line[k])

\* where glyph k of the line goes: behind the glyphs of earlier signatures
\* and the earlier glyphs of its own
GroupedPosition(line, k) ==
    Cardinality({j \in DOMAIN line :
        \/ FirstWith(line, j) < FirstWith(line, k)
        \/ (FirstWith(line, j) = FirstWith(line, k) /\ j <= k)})

Contiguous(line) ==
    \A a, b \in DOMAIN line :
        (a < b /\ StyleOf(line[a]) = StyleOf(line[b])) =>
            \A h \in a..b : StyleOf(line[h]) = StyleOf(line[a])

\* C8 as amended: texts grouped by signature, raw order when contiguous
C8_GroupedOrder ==
    (PageDone /\ ~title_recognize /\ ~color_recognize) =>
        /\ Cardinality(NewlinesIn(LastPageOutput)) = Len(lines)
        /\ \A k \in DOMAIN lines :
             LET out == Piece(LastPageOutput, k) IN
             /\ Len(out) = Len(lines[k])
             /\ \A g \in DOMAIN lines[k] :
                  out[GroupedPosition(lines[k], g)] = lines[k][g].text
             /\ Contiguous(lines[k]) => out = LineText(lines[k])

\* a line in styles A, B, A whose texts came out regrouped
C8_Witness ==
    /\ PageDone /\ ~title_recognize /\ ~color_recognize
    /\ Len(lines) = 1
    /\ Len(lines[1]) = 3
    /\ StyleOf(lines[1][1]) = StyleOf(lines[1][3])
    /\ StyleOf(lines[1][1]) # StyleOf(lines[1][2])
    /\ LineText(lines[1]) = <<"P", "P", "1">>
    /\ Piece(LastPageOutput, 1) = <<"P", "1", "P">>

----------------------------------------------------------------------------
(* C9.  A header or footer pattern that does not compile makes the         *)
(* conversion fail before any page is processed: no delimiter is appended  *)
(* and no page is sorted, whatever the document.  The code compiles a      *)
(* pattern only when it filters the first line it meets, after the         *)
(* delimiter of that page; a document without lines is converted.  Stated  *)
(* for the documents that have a first page.                               *)
C9_FailFast ==
    (pdf # <<>> /\ (ReError(header_regex) \/ ReError(footer_regex))) =>
        /\ page_i = 0
        /\ markdown_content = <<>>
        /\ pc # "done"

----------------------------------------------------------------------------
(* process_pdf of ocr_app.py from line 122 on: convert_from_path has       *)
(* returned `images`.  One step per iteration of the page loop (lines      *)
(* 123-135; PIL's image.save is taken to succeed), one for the saving of   *)
(* the result (lines 137-158).  An OCR outcome is the text returned or an  *)
(* exception; text is an opaque string.                                    *)

OcrOutcomes ==
    {[ok |-> TRUE, text |-> "t"], [ok |-> TRUE, text |-> ""], [ok |-> FALSE, text |-> ""]}

\* line 133, skipped when the call at line 132 raises
AfterOcr(text_so_far, i, outcome) ==
    IF outcome.ok
    THEN text_so_far \o <<"-------- Page ", ToString(i + 1), " --------\n",
                          outcome.text, "\n\n">>
    ELSE text_so_far

\* mutant: the exception of the OCR call not caught
PcAfterOcrUncaught(outcome) == IF outcome.ok THEN "loop" ELSE "raised"
\* lines 134-135: the exception is logged and the loop goes on
PcAfterOcr(outcome) == "loop"

OcrPage ==
    /\ ocr_pc = "loop"
    /\ Len(ocr_results) < images
    /\ \E outcome \in OcrOutcomes :
         /\ ocr_results' = Append(ocr_results, outcome)
         /\ full_text' = AfterOcr(full_text, Len(ocr_results), outcome)
         /\ ocr_pc' = PcAfterOcr(outcome)
    /\ UNCHANGED <<images, saved_file, pdfVars>>

\* os.makedirs may raise (not caught); a failing open or write is caught and
\* the text is logged instead
SaveResults ==
    /\ ocr_pc = "loop"
    /\ Len(ocr_results) = images
    /\ \E env \in {"ok", "write_error", "makedirs_error"} :
         /\ ocr_pc' = CASE env = "ok" -> "saved"
                        [] env = "write_error" -> "printed"
                        [] OTHER -> "raised"
         /\ saved_file' = IF env = "ok" THEN full_text ELSE saved_file
    /\ UNCHANGED <<images, ocr_results, full_text, pdfVars>>

InitPdfIdle ==
    /\ pdf = <<>>
    /\ title_recognize = FALSE
    /\ color_recognize = FALSE
    /\ header_regex = <<>>
    /\ footer_regex = <<>>
    /\ pc = "idle"
    /\ page_i = 0
    /\ markdown_content = <<>>
    /\ lines_grouped = <<>>
    /\ lines = <<>>
    /\ line_objects = <<>>
    /\ styled_chars = <<>>
    /\ merged_lines = <<>>
    /\ output_file = <<"unwritten">>

InitOcr ==
    /\ InitPdfIdle
    /\ ocr_pc = "loop"
    /\ images \in 0..MaxImages
    /\ ocr_results = <<>>
    /\ full_text = <<>>
    /\ saved_file = <<"unwritten">>

NextOcr == OcrPage \/ SaveResults

SpecOcr == InitOcr /\ [][NextOcr]_vars

----------------------------------------------------------------------------
(* C10.  An OCR call that raises does not abort process_pdf: every later   *)
(* page is still sent to the OCR function, the text holds the sections of  *)
(* the pages that succeeded, in page order, and nothing for a page that    *)
(* failed, and the result is saved as after a run without failures.        *)
C10_Section(i) ==
    IF ocr_results[i].ok
    THEN <<"-------- Page ", ToString(i), " --------\n", ocr_results[i].text, "\n\n">>
    ELSE <<>>

\* C10: a failed OCR call costs its own section and nothing else
C10_PartialFailure ==
    /\ full_text = Flatten([i \in DOMAIN ocr_results |-> C10_Section(i)])
    /\ Len(ocr_results) < images => (ocr_pc = "loop" /\ ENABLED OcrPage)
    /\ (ocr_pc = "loop" /\ Len(ocr_results) = images) => ENABLED SaveResults
    /\ ocr_pc # "loop" => Len(ocr_results) = images
    /\ ocr_pc = "saved" => saved_file = full_text

\* page 2 of 3 failed, pages 1 and 3 are in the saved text
C10_Witness ==
    /\ ocr_pc = "saved"
    /\ images = 3
    /\ ocr_results[1].ok /\ ~ocr_results[2].ok /\ ocr_results[3].ok
    /\ saved_file = <<"-------- Page ", "1", " --------\n", "t", "\n\n",
                      "-------- Page ", "3", " --------\n", "t", "\n\n">>

----------------------------------------------------------------------------
(* C11.  A glyph whose colour tuple has the wrong arity never makes page   *)
(* processing fail: it counts as the default (0, 0, 0) when signatures are *)
(* compared and when the line is rendered, so that with color_recognize    *)
(* the line carries no colour span.  The code keeps the tuple as it is: a  *)
(* tuple of fewer than three components raises IndexError at line 75, one  *)
(* of four is rendered as a span of its first three components, and as a   *)
(* heading colour neither equals (0, 0, 0).                                *)
Malformed(color) == Len(color) # 3

NormalColor(color) == IF Malformed(color) THEN Black ELSE color

C11_MalformedIsDefault ==
    /\ pc # "index_error"
    /\ PageDone =>
         \A k \in DOMAIN line_objects :
            /\ (color_recognize
                  /\ \A g \in DOMAIN lines[k] : NormalColor(lines[k][g].color) = Black)
               => "</font>" \notin Range(line_objects[k].text)
            /\ line_objects[k].is_heading
               => line_objects[k].color = NormalColor(lines[k][1].color)

----------------------------------------------------------------------------
(* C12.  The lines of a page, concatenated, are the page's glyphs sorted   *)
(* by (top, x0), each glyph once; no line is empty; two glyphs that follow *)
(* each other in the sorted sequence are in different lines exactly when   *)
(* their tops differ by at least 20% of the size of the earlier one; a     *)
(* page without glyphs has no line and a page of one glyph has one line of *)
(* that glyph.                                                             *)
PageChars == pdf[page_i]
SortedPage == Flatten(lines_grouped)

Occurrences(s, x) == Cardinality({k \in DOMAIN s : s[k] = x})

\* the line that holds position i of the sorted sequence
LineOfPosition(i) ==
    CHOOSE l \in DOMAIN lines_grouped :
        LET before == Len(Flatten(SubSeq(lines_grouped, 1, l - 1)))
        IN  before < i /\ i <= before + Len(lines_grouped[l])

\* C12: the segmenter partitions the sorted glyphs at the 20% threshold
C12_Segmenter ==
    page_i >= 1 =>
        /\ Len(SortedPage) = Len(PageChars)
        /\ \A k \in DOMAIN PageChars :
             Occurrences(SortedPage, PageChars[k]) = Occurrences(PageChars, PageChars[k])
        /\ \A i \in 1..(Len(SortedPage) - 1) :
             LET a == SortedPage[i]
                 b == SortedPage[i + 1]
             IN  /\ a.top < b.top \/ (a.top = b.top /\ a.x0 <= b.x0)
                 /\ (LineOfPosition(i) # LineOfPosition(i + 1))
                      <=> (5 * Abs(b.top - a.top) >= a.size)
        /\ \A l \in DOMAIN lines_grouped : lines_grouped[l] # <<>>
        /\ PageChars = <<>> => lines_grouped = <<>>
        /\ Len(PageChars) = 1 => lines_grouped = <<PageChars>>

\* three glyphs given out of order come out as one line: the third is 2pt
\* below the first two, which is 20% of the size of the first (10pt) but less
\* than 20% of the size of the second (20pt), the glyph added last
C12_Witness ==
    /\ page_i >= 1
    /\ Len(PageChars) = 3
    /\ PageChars # SortedPage
    /\ Len(lines_grouped) = 1
    /\ lines_grouped[1][1].size = 100
    /\ lines_grouped[1][2].size = 200
    /\ lines_grouped[1][2].top = lines_grouped[1][1].top
    /\ lines_grouped[1][3].top - lines_grouped[1][2].top = 20

----------------------------------------------------------------------------
(* C13.  The style runs of a line are its distinct signatures in order of  *)
(* first occurrence; the text of a run is the texts, in line order, of all *)
(* glyphs of the line with that signature, also of separated spans; the    *)
(* text of the line is the runs in that order, each inside its own markup  *)
(* when color_recognize is set.  Stated of the line analysed last on the   *)
(* page.                                                                   *)
LastLine == lines[Len(lines)]

FirstOccurrence(line, style) ==
    CHOOSE j \in DOMAIN line :
        StyleOf(line[j]) = style /\ \A h \in 1..(j - 1) : StyleOf(line[h]) # style

TextsWith(line, style) ==
    LineText(SelectSeq(line, LAMBDA g : StyleOf(g) = style))

\* the elements of a line text that are glyph texts of the line, not markup
GlyphTextOnly(text, line) ==
    SelectSeq(text, LAMBDA t : t \in Range(LineText(line)))

\* C13: runs by signature in first-seen order, line text = runs in that order
C13_StyleRuns ==
    (PageDone /\ lines # <<>>) =>
        /\ {styled_chars[r].style : r \in DOMAIN styled_chars} = Signatures(LastLine)
        /\ Len(styled_chars) = Cardinality(Signatures(LastLine))
        /\ \A r \in DOMAIN styled_chars :
             styled_chars[r].texts = TextsWith(LastLine, styled_chars[r].style)
        /\ \A q, r \in DOMAIN styled_chars :
             q < r => FirstOccurrence(LastLine, styled_chars[q].style)
                        < FirstOccurrence(LastLine, styled_chars[r].style)
        /\ GlyphTextOnly(line_objects[Len(lines)].text, LastLine)
             = Flatten([r \in DOMAIN styled_chars |-> styled_chars[r].texts])
        /\ ~color_recognize =>
             line_objects[Len(lines)].text
               = Flatten([r \in DOMAIN styled_chars |-> styled_chars[r].texts])

\* bold "P", italic "1", bold "1": two runs, the bold "P1" before the italic "1"
C13_Witness ==
    /\ PageDone /\ color_recognize /\ ~title_recognize
    /\ Len(lines) = 1
    /\ Len(LastLine) = 3
    /\ LineText(LastLine) = <<"P", "1", "1">>
    /\ Len(styled_chars) = 2
    /\ styled_chars[1] = [style |-> <<Lower(ArialBold), 20, Black>>, texts |-> <<"P", "1">>]
    /\ styled_chars[2] = [style |-> <<Lower(ArialItalic), 20, Black>>, texts |-> <<"1">>]
    /\ line_objects[1].text = <<"**", "P", "1", "**", "*", "1", "*">>

====
